---- MODULE Spec2Model ----
(***************************************************************************)
(* A model of src/main.py: the multi-provider stream and search resolvers  *)
(* (get_stream_multi_fallback, search_multi_fallback and the adapters they *)
(* drive) and the download job tracker (download_status, start_download,   *)
(* download_audio, progress_hook, get_status, download_file, cleanup_file).*)
(*                                                                         *)
(* A resolution request is one process whose steps are its outbound        *)
(* backend contacts (every contact is an await point).  A download job is  *)
(* one coroutine plus the engine's worker thread that calls progress_hook. *)
(***************************************************************************)
EXTENDS Integers, Sequences, FiniteSets, TLC

VARIABLES
    \* ---- one resolution request in flight (locals of the handler) ----
    endpoint,        \* which handler is running: "none", "stream-multi",
                     \* "stream-cloudflare", "search-multi"
    rpc,             \* its position: "idle", a stage name, "returned" or "raised"
    inst,            \* index of the next instance of the current pool
    limit,           \* the search handler's limit parameter
    errors,          \* the errors accumulator of the multi-fallback handler
    calls,           \* outbound backend contacts made by this request, in order
    reply,           \* what the handler returned or raised
    entries,         \* the raw entries of yt-dlp's search answer (search_music)
    answer,          \* the last answer a stream backend gave to this request
    thrown,          \* the exception that answer raised in the adapter, and what left it
    worker_env,      \* whether os.getenv('CLOUDFLARE_WORKER_URL') is set
    cookies,         \* the contents of ./cookies.txt, Absent when there is no file
    \* ---- the job tracker and the download workflow ----
    download_status, \* the module-level dict: task id -> entry, or NoEntry
    wpc,             \* per task id: position of start_download/download_audio
    files,           \* per task id: extensions e for which downloads/<id>.<e> exists
    escaped,         \* per task id: an exception left download_audio
    response,        \* the last response of a job handler
    hpc              \* the job handler that is between two of its statements

rvars == <<endpoint, rpc, inst, limit, errors, calls, reply, entries, answer, thrown>>
jvars == <<download_status, wpc, files, escaped, response, hpc>>
vars == <<endpoint, rpc, inst, limit, errors, calls, reply, entries, answer, thrown,
          worker_env, cookies,
          download_status, wpc, files, escaped, response, hpc>>

\* A missing dict key / None.
Absent == "<absent>"

(***************************************************************************)
(* Text: a string is a sequence of one-character strings, so that lower()  *)
(* and the substring test `x in title` are computed, not assumed.          *)
(***************************************************************************)
UpperChars ==
    << "A","B","C","D","E","F","G","H","I","J","K","L","M",
       "N","O","P","Q","R","S","T","U","V","W","X","Y","Z" >>
LowerChars ==
    << "a","b","c","d","e","f","g","h","i","j","k","l","m",
       "n","o","p","q","r","s","t","u","v","w","x","y","z" >>

LowerChar(c) ==
    IF \E i \in 1..Len(UpperChars) : UpperChars[i] = c
    THEN LowerChars[CHOOSE i \in 1..Len(UpperChars) : UpperChars[i] = c]
    ELSE c

\* str.lower()
Lower(s) == [i \in 1..Len(s) |-> LowerChar(s[i])]

\* `sub in s` for strings
Contains(sub, s) ==
    \E i \in 1..(Len(s) - Len(sub) + 1) : SubSeq(s, i, i + Len(sub) - 1) = sub

\* The denylist applied to the lowercased title (main.py:262).
TitleDenylist ==
    { <<"r","e","m","i","x">>, <<"c","o","v","e","r">>,
      <<"r","e","a","c","t","i","o","n">>, <<"a","i"," ","c","o","v","e","r">>,
      <<"p","a","r","o","d","y">>, <<"m","a","s","h","u","p">>,
      <<"s","p","e","d"," ","u","p">>, <<"s","l","o","w","e","d">> }

\* The denylist applied to the lowercased uploader (main.py:264).
UploaderDenylist ==
    { <<"l","y","r","i","c","s">>, <<"c","l","o","u","d","s">>,
      <<"t","o","p","i","c">>, <<"m","i","x">> }

(***************************************************************************)
(* Format selection.                                                       *)
(***************************************************************************)
\* str.startswith
StartsWith(prefix, s) ==
    Len(s) >= Len(prefix) /\ SubSeq(s, 1, Len(prefix)) = prefix

AudioPrefix == <<"a","u","d","i","o">>
AudioMp4 == <<"a","u","d","i","o","/","m","p","4">>
AudioWebm == <<"a","u","d","i","o","/","w","e","b","m">>
VideoMp4 == <<"v","i","d","e","o","/","m","p","4">>

\* InsertDesc putting an item before the items of equal key.
RECURSIVE InsertDesc_Unstable(_, _)
InsertDesc_Unstable(p, sorted) ==
    IF sorted = <<>> THEN <<p>>
    ELSE IF Head(sorted)[1] > p[1]
         THEN <<Head(sorted)>> \o InsertDesc_Unstable(p, Tail(sorted))
         ELSE <<p>> \o sorted

\* list.sort(key=..., reverse=True) on a sequence of <<key, item>> pairs: Python's
\* sort is stable, also with reverse=True, so an item goes after every item whose
\* key is at least its own.
RECURSIVE InsertDesc(_, _)
InsertDesc(p, sorted) ==
    IF sorted = <<>> THEN <<p>>
    ELSE IF Head(sorted)[1] >= p[1]
         THEN <<Head(sorted)>> \o InsertDesc(p, Tail(sorted))
         ELSE <<p>> \o sorted

RECURSIVE SortDesc(_)
SortDesc(keyed) ==
    IF keyed = <<>> THEN <<>>
    ELSE InsertDesc(keyed[Len(keyed)], SortDesc(SubSeq(keyed, 1, Len(keyed) - 1)))

\* f"{x:.0f}" of n/1000 (round half to even).
RoundDiv1000(n) ==
    LET q == n \div 1000
        r == n % 1000
    IN  IF r > 500 THEN q + 1
        ELSE IF r < 500 THEN q
        ELSE IF q % 2 = 0 THEN q ELSE q + 1

\* An adapter's outcome: a result dict, or a failure.
Ok(result) == [ok |-> TRUE, result |-> result]
Fail == [ok |-> FALSE, result |-> Absent]

\* The exception classes the adapters meet, each with its base classes (itself
\* included): httpx's transport errors derive from httpx.HTTPError, and
\* fastapi's HTTPException, yt-dlp's DownloadError and the builtin errors derive
\* from Exception only.
Bases(c) ==
    CASE c = "httpx.TimeoutException" -> {c, "httpx.HTTPError", "Exception"}
      [] c = "httpx.ConnectError" -> {c, "httpx.HTTPError", "Exception"}
      [] c = "HTTPException" -> {c, "Exception"}
      [] c = "DownloadError" -> {c, "Exception"}
      [] c = "KeyError" -> {c, "Exception"}
      [] c = "ValueError" -> {c, "Exception"}

\* The first of the except clauses that catches an exception of class c, Absent
\* when none does.
Catching(clauses, c) ==
    LET hits == {i \in 1..Len(clauses) : clauses[i] \in Bases(c)}
    IN  IF hits = {} THEN Absent
        ELSE clauses[CHOOSE i \in hits : \A j \in hits : i <= j]

\* ExceptClauses with clauses for httpx's errors only.
ExceptClauses_HttpOnly(backend) ==
    IF backend = "cloudflare" THEN <<"httpx.TimeoutException", "httpx.HTTPError">>
    ELSE <<"httpx.HTTPError">>

\* The except clauses around each adapter's contact with its backend:
\* get_stream_url (main.py:713), the loops of get_stream_via_invidious
\* (main.py:614) and get_stream_via_piped (main.py:395), and
\* get_stream_via_cloudflare (main.py:332-340).
ExceptClauses(backend) ==
    IF backend = "cloudflare"
    THEN <<"httpx.TimeoutException", "httpx.HTTPError", "Exception">>
    ELSE <<"Exception">>

\* A failure by an exception of class c raised inside the adapter's try block.
Thrown(c) == [ok |-> FALSE, result |-> Absent, raised |-> c]

\* No exception was raised.
NoThrow == [raised |-> Absent, escaped |-> Absent]

\* What adapter `backend` did with the outcome r of its try block: the class
\* raised there, and the class that left the adapter when it is not an
\* HTTPException (none of its except clauses caught it).
Outcome(backend, r) ==
    IF r.ok \/ "raised" \notin DOMAIN r THEN NoThrow
    ELSE [raised |-> r.raised,
          escaped |-> IF r.raised = "HTTPException"
                         \/ Catching(ExceptClauses(backend), r.raised) # Absent
                      THEN Absent ELSE r.raised]

\* The keys of a stream result; a key the adapter does not set is Absent.
StreamResult(url, quality, format, source, instance) ==
    [stream_url |-> url, quality |-> quality, format |-> format, source |-> source,
     instance_used |-> instance, fallback_used |-> Absent, method |-> Absent]

\* An optional number is <<>> (missing key or None) or <<n>>.
None == <<>>
Some(n) == <<n>>

\* x.get('abr', 0) or 0
AbrKey(f) == IF f.abr = None THEN 0 ELSE f.abr[1]

\* The yt-dlp half of get_stream_url (main.py:685-713): extract_info, keep the
\* formats with an audio codec and a URL, sort by abr descending, take the first.
\* A raise and an empty candidate list both fall through to Invidious.
ytdlp_extract_stream(ans) ==
    IF ans.raises THEN Thrown("DownloadError")
    ELSE LET audio_formats ==
                 SelectSeq(ans.formats, LAMBDA f : f.acodec # "none" /\ f.url # Absent)
         IN  IF audio_formats = <<>> THEN Fail
             ELSE LET sorted == SortDesc([i \in 1..Len(audio_formats) |->
                                            <<AbrKey(audio_formats[i]), audio_formats[i]>>])
                      best == sorted[1][2]
                  IN  Ok(StreamResult(best.url,
                                      <<IF best.abr = None THEN "N/A" ELSE best.abr[1], "kbps">>,
                                      Absent, "yt-dlp", Absent))

\* f.get('type', ''): a format without a type has the empty text.
TypeOf(f) == f.type

\* int(x.get('bitrate', 0)); a bitrate that does not parse as a number has
\* numeric = FALSE and makes int() raise.
BitrateOf(f) == IF f.bitrate = None THEN 0 ELSE f.bitrate[1]

\* One iteration of get_stream_via_invidious's loop (main.py:577-616): any
\* exception, a non-200 status and an empty audio list all continue.
invidious_instance(ans, instance) ==
    IF ans.kind # "http" THEN Thrown("httpx.TimeoutException")
    ELSE IF ans.status_code # 200 THEN Fail
    ELSE LET audio_formats ==
                 SelectSeq(ans.formats, LAMBDA f : StartsWith(AudioPrefix, TypeOf(f)))
         IN  IF audio_formats = <<>> THEN Fail
             ELSE IF \E i \in 1..Len(audio_formats) : ~audio_formats[i].numeric
                  THEN Thrown("ValueError")   \* int() raises in the sort key
             ELSE LET sorted == SortDesc([i \in 1..Len(audio_formats) |->
                                            <<BitrateOf(audio_formats[i]), audio_formats[i]>>])
                      best == sorted[1][2]
                  IN  IF best.url = Absent THEN Thrown("KeyError")   \* best['url']
                      ELSE Ok(StreamResult(best.url,
                                           <<RoundDiv1000(BitrateOf(best)), "kbps">>,
                                           best.type, Absent, instance))

\* One iteration of get_stream_via_piped's loop (main.py:360-397).
piped_instance(ans, instance) ==
    IF ans.kind # "http" THEN Thrown("httpx.TimeoutException")
    ELSE IF ans.status_code # 200 THEN Fail
    ELSE LET audio_streams == ans.formats
         IN  IF audio_streams = <<>> THEN Fail
             ELSE IF \E i \in 1..Len(audio_streams) : ~audio_streams[i].numeric
                  THEN Thrown("ValueError")
             ELSE LET sorted == SortDesc([i \in 1..Len(audio_streams) |->
                                            <<BitrateOf(audio_streams[i]), audio_streams[i]>>])
                      best == sorted[1][2]
                  IN  IF best.url = Absent THEN Thrown("KeyError")
                      ELSE Ok(StreamResult(best.url,
                                           <<RoundDiv1000(BitrateOf(best)), "kbps">>,
                                           best.type, "piped", instance))

\* An HTTPException and its str(): "<status_code>: <detail>".
HTTPException(code, detail) == [status_code |-> code, detail |-> detail]
Str(e) == <<e.status_code, ": ", e.detail>>

\* The worker URL is a literal in get_stream_via_cloudflare (main.py:290).
WorkerUrl == "https://yt-downloader-api.leolivieri1910.workers.dev"

\* The try block of get_stream_via_cloudflare (main.py:300-330): the request
\* to the worker, the HTTPException raised for a non-200 answer, and the
\* subscripts data['stream_url'] and data['title'].
worker_try(ans) ==
    IF ans.kind = "timeout" THEN Thrown("httpx.TimeoutException")
    ELSE IF ans.kind = "http_error" THEN Thrown("httpx.ConnectError")
    ELSE IF ans.status_code # 200 THEN Thrown("HTTPException")
    ELSE IF ans.stream_url = Absent \/ ans.title = Absent THEN Thrown("KeyError")
    ELSE Ok(StreamResult(ans.stream_url,
                         IF ans.quality = Absent THEN "N/A" ELSE ans.quality,
                         Absent, "cloudflare-worker", Absent))

\* get_stream_via_cloudflare (main.py:286-340).  The HTTPException raised for a
\* non-200 answer is raised inside the try block, so the except clauses see it
\* like any other exception; an exception no clause catches leaves the handler
\* as it is, and the framework answers 500 for one that is not an HTTPException.
get_stream_via_cloudflare(ans) ==
    IF WorkerUrl = ""
    THEN [ok |-> FALSE, contacted |-> FALSE,
          exc |-> HTTPException(503, <<"Cloudflare Worker non configurato">>)]
    ELSE LET t == worker_try(ans)
             inner == HTTPException(ans.status_code, <<"Worker failed: ", ans.text>>)
             clause == Catching(ExceptClauses("cloudflare"), t.raised)
         IN  IF t.ok THEN [ok |-> TRUE, contacted |-> TRUE, result |-> t.result]
             ELSE [ok |-> FALSE, contacted |-> TRUE, raised |-> t.raised,
                   exc |-> IF clause = "httpx.TimeoutException"
                           THEN HTTPException(504, <<"Cloudflare Worker timeout">>)
                           ELSE IF clause = "httpx.HTTPError"
                           THEN HTTPException(503, <<"Cloudflare Worker HTTP error: ", ans.text>>)
                           ELSE IF clause = "Exception"
                           THEN HTTPException(503, <<"Cloudflare Worker error: ",
                                    IF t.raised = "HTTPException" THEN Str(inner)
                                    ELSE t.raised>>)
                           ELSE IF t.raised = "HTTPException" THEN inner
                           ELSE HTTPException(500, <<"Internal Server Error">>)]

\* The instance lists, in the order the loops walk them.
InvidiousStreamInstances ==
    << "https://inv.perditum.com", "https://inv.nadeko.net", "https://yewtu.be",
       "https://invidious.privacyredirect.com", "https://invidious.protokolla.fi",
       "https://invidious.f5.si", "https://yt.artemislena.eu",
       "https://invidious.nerdvpn.de" >>

PipedStreamInstances ==
    << "https://pipedapi.kavin.rocks", "https://piped-api.garudalinux.org",
       "https://pipedapi.tokhmi.xyz", "https://api.piped.projectsegfau.lt" >>

InvidiousSearchInstances ==
    << "https://inv.nadeko.net", "https://yewtu.be",
       "https://invidious.privacyredirect.com", "https://invidious.protokolla.fi",
       "https://invidious.f5.si", "https://yt.artemislena.eu",
       "https://invidious.nerdvpn.de", "https://inv.perditum.com" >>

PipedSearchInstances ==
    << "https://pipedapi.kavin.rocks", "https://piped-api.garudalinux.org" >>

InvidiousStreamExhausted ==
    HTTPException(503, <<"Tutte le istanze Invidious hanno fallito. Riprova tra qualche secondo.">>)
PipedStreamExhausted == HTTPException(503, <<"Tutte le istanze Piped hanno fallito">>)
InvidiousSearchExhausted == HTTPException(503, <<"Tutte le istanze Invidious hanno fallito">>)

(***************************************************************************)
(* What the backends may answer (the inputs of the resolver's steps).      *)
(***************************************************************************)
YtFormat(acodec, url, abr) == [acodec |-> acodec, url |-> url, abr |-> abr]
MirrorFormat(type, url, bitrate) ==
    [type |-> type, url |-> url, bitrate |-> bitrate, numeric |-> TRUE]

YtFormatLists ==
    { <<>>,
      << YtFormat("none", "v1", None) >>,
      << YtFormat("mp4a", "u1", Some(128)), YtFormat("opus", "u2", Some(128)) >>,
      << YtFormat("opus", "u1", None), YtFormat("none", "v1", Some(900)),
         YtFormat("mp4a", "u2", Some(160)), YtFormat("mp4a", Absent, Some(320)) >> }

YtStreamAnswers ==
    { [raises |-> TRUE, formats |-> <<>>] } \cup
    { [raises |-> FALSE, formats |-> f] : f \in YtFormatLists }

MirrorFormatLists ==
    { <<>>,
      << MirrorFormat(VideoMp4, "v1", Some(900000)) >>,
      << MirrorFormat(AudioMp4, "m1", Some(128500)), MirrorFormat(AudioWebm, "m2", Some(128500)) >>,
      << MirrorFormat(AudioWebm, "m1", None), MirrorFormat(VideoMp4, "v1", Some(900000)),
         MirrorFormat(AudioMp4, "m2", Some(129500)) >>,
      << MirrorFormat(AudioMp4, Absent, Some(160000)), MirrorFormat(AudioWebm, "m1", Some(64000)) >>,
      << [MirrorFormat(AudioMp4, "m1", None) EXCEPT !.numeric = FALSE] >> }

MirrorStreamAnswers ==
    { [kind |-> "timeout", status_code |-> 0, formats |-> <<>>],
      [kind |-> "http", status_code |-> 500, formats |-> <<>>] } \cup
    { [kind |-> "http", status_code |-> 200, formats |-> f] : f \in MirrorFormatLists }

WorkerAnswers ==
    { [kind |-> "timeout", status_code |-> 0, text |-> Absent,
       stream_url |-> Absent, title |-> Absent, quality |-> Absent],
      [kind |-> "http_error", status_code |-> 0, text |-> "connect failed",
       stream_url |-> Absent, title |-> Absent, quality |-> Absent],
      [kind |-> "http", status_code |-> 404, text |-> "not found",
       stream_url |-> Absent, title |-> Absent, quality |-> Absent],
      [kind |-> "http", status_code |-> 200, text |-> Absent,
       stream_url |-> "w1", title |-> Absent, quality |-> Absent],
      [kind |-> "http", status_code |-> 200, text |-> Absent,
       stream_url |-> "w1", title |-> "t", quality |-> Absent],
      [kind |-> "http", status_code |-> 200, text |-> Absent,
       stream_url |-> "w2", title |-> "t", quality |-> "128kbps"] }

(***************************************************************************)
(* Search.                                                                 *)
(***************************************************************************)
\* One raw entry of a backend's search answer; a None entry has null = TRUE.
RawEntry(title, uploader, id, type) ==
    [null |-> FALSE, title |-> title, title_none |-> FALSE, uploader |-> uploader,
     id |-> id, type |-> type]
NullEntry ==
    [null |-> TRUE, title |-> <<>>, title_none |-> FALSE, uploader |-> <<>>,
     id |-> Absent, type |-> Absent]

\* An entry whose 'title' key is present with the value None.
UntitledEntry(uploader, id, type) ==
    [RawEntry(<<>>, uploader, id, type) EXCEPT !.title_none = TRUE]

\* One element of "results".
SearchItem(e) == [title |-> e.title, url |-> e.id, uploader |-> e.uploader]

SearchResponse(results, source) ==
    [results |-> results, count |-> Len(results), source |-> source]

\* Denylisted without the .lower() calls.
Denylisted_CaseSensitive(e) ==
    \/ \E x \in TitleDenylist : Contains(x, e.title)
    \/ \E x \in UploaderDenylist : Contains(x, e.uploader)

\* The two `any(x in ... for x in [...])` tests of search_music (main.py:258-265).
Denylisted(e) ==
    \/ \E x \in TitleDenylist : Contains(x, Lower(e.title))
    \/ \E x \in UploaderDenylist : Contains(x, Lower(e.uploader))

\* The yt-dlp half of search_music (main.py:238-280): skip falsy and denylisted
\* entries; a raise and an empty result list both fall through to Invidious.
ytdlp_search(ans) ==
    IF ans.raises THEN Fail
    ELSE IF \E i \in 1..Len(ans.entries) : ~ans.entries[i].null /\ ans.entries[i].title_none
    THEN Fail   \* e.get("title", "") is None and .lower() raises inside the try
    ELSE LET kept == SelectSeq(ans.entries, LAMBDA e : ~e.null /\ ~Denylisted(e))
             results == [i \in 1..Len(kept) |-> SearchItem(kept[i])]
         IN  IF results = <<>> THEN Fail ELSE Ok(SearchResponse(results, "yt-dlp"))

\* seq[:n]
Take(seq, n) == SubSeq(seq, 1, IF n < Len(seq) THEN n ELSE Len(seq))

\* One iteration of search_via_invidious's loop (main.py:193-227): the first
\* 200 answer is returned as it is, truncated to limit.
invidious_search_instance(ans, lim) ==
    IF ans.kind # "http" \/ ans.status_code # 200 THEN Fail
    ELSE LET data == Take(ans.entries, lim)
         IN  IF \E i \in 1..Len(data) : data[i].null THEN Fail  \* None.get raises
             ELSE Ok(SearchResponse([i \in 1..Len(data) |-> SearchItem(data[i])],
                                    "invidious"))

\* One iteration of the Piped loop of search_multi_fallback (main.py:506-539):
\* an answer without a 'stream' item goes on to the next instance.
piped_search_instance(ans, lim) ==
    IF ans.kind # "http" \/ ans.status_code # 200 THEN Fail
    ELSE LET items == Take(ans.entries, lim)
         IN  IF \E i \in 1..Len(items) : items[i].null THEN Fail
             ELSE LET streams == SelectSeq(items, LAMBDA it : it.type = "stream")
                      results == [i \in 1..Len(streams) |-> SearchItem(streams[i])]
                  IN  IF results = <<>> THEN Fail
                      ELSE Ok(SearchResponse(results, "piped"))

T_Song == <<"S","o","n","g">>
T_SongRemix == <<"S","o","n","g"," ","(","R","E","M","I","X",")">>
T_Tune == <<"T","u","n","e">>
U_Artist == <<"A","r","t","i","s","t">>
U_HitLyrics == <<"H","i","t"," ","L","y","r","i","c","s">>
T_SongLyrics == <<"S","o","n","g"," ","L","y","r","i","c","s">>
U_CoverBand == <<"C","o","v","e","r"," ","B","a","n","d">>

RawEntryLists ==
    { <<>>,
      << RawEntry(T_Song, U_Artist, "id1", "stream") >>,
      << RawEntry(T_SongRemix, U_Artist, "id2", "stream"),
         RawEntry(T_Song, U_HitLyrics, "id3", "stream") >>,
      << RawEntry(T_SongRemix, U_Artist, "id2", "stream"),
         RawEntry(T_Tune, <<>>, "id4", "stream"),
         RawEntry(T_Song, U_Artist, "id1", "stream") >>,
      << RawEntry(T_Song, U_Artist, "ch1", "channel"),
         RawEntry(T_Tune, U_Artist, "id4", "stream") >>,
      << NullEntry, RawEntry(T_Song, U_Artist, "id1", "stream") >>,
      << RawEntry(T_SongLyrics, U_Artist, "id5", "stream"),
         RawEntry(T_Tune, U_CoverBand, "id6", "stream") >>,
      << RawEntry(T_Song, U_Artist, "id1", "stream"),
         UntitledEntry(U_Artist, "id7", "stream") >> }

YtSearchAnswers ==
    { [raises |-> TRUE, entries |-> <<>>] } \cup
    { [raises |-> FALSE, entries |-> e] : e \in RawEntryLists }

MirrorSearchAnswers ==
    { [kind |-> "timeout", status_code |-> 0, entries |-> <<>>],
      [kind |-> "http", status_code |-> 500, entries |-> <<>>] } \cup
    { [kind |-> "http", status_code |-> 200, entries |-> e] : e \in RawEntryLists }

\* The values of the limit query parameter that are tried.
Limits == {1, 2}

(***************************************************************************)
(* The resolution request.                                                 *)
(***************************************************************************)
\* What ./cookies.txt may hold.
CookieJars == {"jar0", "jar1"}

\* get_base_ydl_opts (main.py:72-97), as far as the cookie file goes: the file is
\* handed to yt-dlp when it exists.
get_base_ydl_opts(jar) == [cookiefile |-> jar]

\* The cookie file once a `with yt_dlp.YoutubeDL(ydl_opts)` block is left: yt-dlp
\* loads the jar named by 'cookiefile' and saves it back on exit, with the
\* cookies the answers have set (the file is kept in a writable place for this,
\* main.py:33-41).  Without the option no file is touched.
SavedCookies(ydl_opts) ==
    IF ydl_opts.cookiefile = Absent THEN {Absent} ELSE CookieJars

\* No stream backend has answered this request yet.
NoAnswer == [kind |-> "none"]

NoReply == [kind |-> "none"]
Returned(body) == [kind |-> "ok", body |-> body]
Raised(code, detail) == [kind |-> "raise", status_code |-> code, detail |-> detail]

\* One outbound contact: the try block of the multi-fallback handler it was made
\* in, the backend and instance contacted, whether that contact produced the
\* adapter's result, and the stream URL it produced.
Call(stage, backend, instance, r) ==
    [stage |-> stage, backend |-> backend, instance |-> instance, ok |-> r.ok,
     url |-> IF r.ok /\ "stream_url" \in DOMAIN r.result THEN r.result.stream_url
             ELSE Absent]

\* {**result, 'fallback_used': ..., 'method': ...}
Annotated(result, fallback_used, method) ==
    [result EXCEPT !.fallback_used = fallback_used, !.method = method]

\* StreamStageAfter with the Invidious and Piped blocks in the other order.
StreamStageAfter_PipedFirst(stage) ==
    CASE stage = "yt-dlp" -> "piped"
      [] stage = "piped" -> "invidious"
      [] stage = "invidious" -> "cloudflare"

\* The try block that follows a failed try block of get_stream_multi_fallback
\* (main.py:413-456): yt-dlp, Invidious, Piped, then the Cloudflare branch.
StreamStageAfter(stage) ==
    CASE stage = "yt-dlp" -> "invidious"
      [] stage = "invidious" -> "piped"
      [] stage = "piped" -> "cloudflare"

\* The annotation each try block of get_stream_multi_fallback puts on its result
\* (main.py:418, 428, 438, 450).
StreamAnnotation(stage) ==
    CASE stage = "yt-dlp" -> [fallback_used |-> FALSE, method |-> "yt-dlp"]
      [] stage = "invidious" -> [fallback_used |-> TRUE, method |-> "invidious"]
      [] stage = "piped" -> [fallback_used |-> TRUE, method |-> "piped"]
      [] stage = "cloudflare" -> [fallback_used |-> TRUE, method |-> "cloudflare"]

\* errors.append({"method": ..., "error": str(e)[:150]}); the texts modelled are
\* shorter than the cut.
StreamError(method, e) == [method |-> method, error |-> Str(e)]

NotConfigured ==
    [method |-> "cloudflare", error |-> <<"Not configured (set CLOUDFLARE_WORKER_URL)">>]

\* The end of get_stream_multi_fallback (main.py:458-468).
AllMethodsFailed(errs) ==
    Raised(503, [message |-> "Tutti i metodi disponibili hanno fallito",
                 tried_methods |-> Len(errs), errors |-> errs])

\* The result of a try block that succeeded.
StreamReturn(stage, result) ==
    LET a == StreamAnnotation(stage)
    IN  Returned(Annotated(result, a.fallback_used, a.method))

\* The Cloudflare branch of get_stream_multi_fallback when the variable is not
\* set (main.py:454-456).
CloudflareSkipped(errs) == Append(errs, NotConfigured)

\* What follows the failure of try block `stage` with exception e: the error is
\* appended and the next try block is entered; after Piped, the Cloudflare
\* branch tests the environment variable.
StreamStageFailed(stage, e) ==
    LET errs == Append(errors, StreamError(stage, e))
    IN  IF stage = "cloudflare"
        THEN /\ errors' = errs
             /\ rpc' = "raised"
             /\ reply' = AllMethodsFailed(errs)
             /\ inst' = 1
        ELSE IF StreamStageAfter(stage) = "cloudflare" /\ ~worker_env
        THEN /\ errors' = CloudflareSkipped(errs)
             /\ rpc' = "raised"
             /\ reply' = AllMethodsFailed(errors')
             /\ inst' = 1
        ELSE /\ errors' = errs
             /\ rpc' = StreamStageAfter(stage)
             /\ reply' = reply
             /\ inst' = 1

\* A call of get_stream_multi_fallback begins.
StartStreamMulti ==
    /\ rpc \in {"idle", "returned", "raised"}
    /\ endpoint' = "stream-multi"
    /\ rpc' = "yt-dlp"
    /\ inst' = 1
    /\ limit' = 0
    /\ errors' = <<>>
    /\ calls' = <<>>
    /\ reply' = NoReply
    /\ entries' = <<>>
    /\ answer' = NoAnswer
    /\ thrown' = NoThrow
    /\ UNCHANGED <<worker_env, cookies, jvars>>

\* Try block 1, first half: get_stream_url asks yt-dlp.
StreamYtdlp ==
    /\ endpoint = "stream-multi" /\ rpc = "yt-dlp"
    /\ \E ans \in YtStreamAnswers :
         LET r == ytdlp_extract_stream(ans)
         IN  /\ answer' = ans
             /\ thrown' = Outcome("yt-dlp", r)
             /\ calls' = Append(calls, Call("yt-dlp", "yt-dlp", Absent, r))
             /\ IF r.ok
                THEN /\ rpc' = "returned"
                     /\ reply' = StreamReturn("yt-dlp", r.result)
                ELSE /\ rpc' = "yt-dlp/invidious"
                     /\ reply' = reply
    /\ inst' = 1
    /\ cookies' \in SavedCookies(get_base_ydl_opts(cookies))
    /\ UNCHANGED <<endpoint, limit, errors, entries, worker_env, jvars>>

\* One instance of the Invidious pool: inside get_stream_url (try block 1,
\* second half) or in try block 2.
StreamInvidious ==
    /\ endpoint = "stream-multi" /\ rpc \in {"yt-dlp/invidious", "invidious"}
    /\ \E ans \in MirrorStreamAnswers :
         LET stage == IF rpc = "invidious" THEN "invidious" ELSE "yt-dlp"
             r == invidious_instance(ans, InvidiousStreamInstances[inst])
         IN  /\ answer' = ans
             /\ thrown' = Outcome("invidious", r)
             /\ calls' = Append(calls, Call(stage, "invidious",
                                            InvidiousStreamInstances[inst], r))
             /\ IF r.ok
                THEN /\ rpc' = "returned"
                     /\ reply' = StreamReturn(stage, r.result)
                     /\ UNCHANGED <<inst, errors>>
                ELSE IF inst < Len(InvidiousStreamInstances)
                THEN /\ inst' = inst + 1
                     /\ UNCHANGED <<rpc, reply, errors>>
                ELSE StreamStageFailed(stage, InvidiousStreamExhausted)
    /\ UNCHANGED <<endpoint, limit, entries, worker_env, cookies, jvars>>

\* StreamPiped with `break` where the loop has `continue`: the first failing
\* instance ends the pool.
StreamPiped_StopsAtFirstFailure ==
    /\ endpoint = "stream-multi" /\ rpc = "piped"
    /\ \E ans \in MirrorStreamAnswers :
         LET r == piped_instance(ans, PipedStreamInstances[inst])
         IN  /\ answer' = ans
             /\ thrown' = Outcome("piped", r)
             /\ calls' = Append(calls, Call("piped", "piped", PipedStreamInstances[inst], r))
             /\ IF r.ok
                THEN /\ rpc' = "returned"
                     /\ reply' = StreamReturn("piped", r.result)
                     /\ UNCHANGED <<inst, errors>>
                ELSE StreamStageFailed("piped", PipedStreamExhausted)
    /\ UNCHANGED <<endpoint, limit, entries, worker_env, cookies, jvars>>

\* One instance of the Piped pool (try block 3).
StreamPiped ==
    /\ endpoint = "stream-multi" /\ rpc = "piped"
    /\ \E ans \in MirrorStreamAnswers :
         LET r == piped_instance(ans, PipedStreamInstances[inst])
         IN  /\ answer' = ans
             /\ thrown' = Outcome("piped", r)
             /\ calls' = Append(calls, Call("piped", "piped", PipedStreamInstances[inst], r))
             /\ IF r.ok
                THEN /\ rpc' = "returned"
                     /\ reply' = StreamReturn("piped", r.result)
                     /\ UNCHANGED <<inst, errors>>
                ELSE IF inst < Len(PipedStreamInstances)
                THEN /\ inst' = inst + 1
                     /\ UNCHANGED <<rpc, reply, errors>>
                ELSE StreamStageFailed("piped", PipedStreamExhausted)
    /\ UNCHANGED <<endpoint, limit, entries, worker_env, cookies, jvars>>

\* The Cloudflare worker (try block 4), entered only with the variable set.
StreamCloudflare ==
    /\ endpoint = "stream-multi" /\ rpc = "cloudflare"
    /\ \E ans \in WorkerAnswers :
         LET r == get_stream_via_cloudflare(ans)
         IN  /\ answer' = ans
             /\ thrown' = Outcome("cloudflare", r)
             /\ calls' = IF r.contacted
                         THEN Append(calls, Call("cloudflare", "cloudflare", WorkerUrl, r))
                         ELSE calls
             /\ IF r.ok
                THEN /\ rpc' = "returned"
                     /\ reply' = StreamReturn("cloudflare", r.result)
                     /\ UNCHANGED <<inst, errors>>
                ELSE StreamStageFailed("cloudflare", r.exc)
    /\ UNCHANGED <<endpoint, limit, entries, worker_env, cookies, jvars>>

\* GET /api/stream-cloudflare: get_stream_via_cloudflare called on its own
\* (main.py:285-340), whatever CLOUDFLARE_WORKER_URL is.
StreamCloudflareStandalone ==
    /\ rpc \in {"idle", "returned", "raised"}
    /\ endpoint' = "stream-cloudflare"
    /\ \E ans \in WorkerAnswers :
         LET r == get_stream_via_cloudflare(ans)
         IN  /\ answer' = ans
             /\ thrown' = Outcome("cloudflare", r)
             /\ calls' = IF r.contacted
                         THEN << Call("cloudflare", "cloudflare", WorkerUrl, r) >>
                         ELSE <<>>
             /\ rpc' = IF r.ok THEN "returned" ELSE "raised"
             /\ reply' = IF r.ok THEN Returned(r.result)
                         ELSE Raised(r.exc.status_code, r.exc.detail)
    /\ inst' = 1
    /\ limit' = 0
    /\ errors' = <<>>
    /\ entries' = <<>>
    /\ UNCHANGED <<worker_env, cookies, jvars>>

\* errors.append(f"<method>: {str(e)[:100]}")
SearchError(method, e) == [method |-> method, error |-> Str(e)]

\* The end of search_multi_fallback (main.py:545-551).
AllSearchFailed(errs) ==
    Raised(503, [message |-> "Tutti i metodi di ricerca hanno fallito", errors |-> errs])

\* What the Piped block of search_multi_fallback leaves in errors when its loop
\* ends without a result (main.py:506-543): every instance failure is swallowed
\* by the inner bare except, so the outer except clause never runs.
PipedSearchExhausted(errs) == errs

\* A call of search_multi_fallback begins.
StartSearchMulti ==
    /\ rpc \in {"idle", "returned", "raised"}
    /\ endpoint' = "search-multi"
    /\ rpc' = "yt-dlp"
    /\ inst' = 1
    /\ limit' \in Limits
    /\ errors' = <<>>
    /\ calls' = <<>>
    /\ reply' = NoReply
    /\ entries' = <<>>
    /\ answer' = NoAnswer
    /\ thrown' = NoThrow
    /\ UNCHANGED <<worker_env, cookies, jvars>>

\* Try block 1, first half: search_music asks yt-dlp.
SearchYtdlp ==
    /\ endpoint = "search-multi" /\ rpc = "yt-dlp"
    /\ \E ans \in YtSearchAnswers :
         LET r == ytdlp_search(ans)
         IN  /\ entries' = ans.entries
             /\ calls' = Append(calls, Call("yt-dlp", "yt-dlp", Absent, r))
             /\ IF r.ok
                THEN /\ rpc' = "returned"
                     /\ reply' = Returned(r.result)
                ELSE /\ rpc' = "yt-dlp/invidious"
                     /\ reply' = reply
    /\ inst' = 1
    /\ cookies' \in SavedCookies(get_base_ydl_opts(cookies))
    /\ UNCHANGED <<endpoint, limit, errors, answer, thrown, worker_env, jvars>>

\* One instance of search_via_invidious: inside search_music (try block 1,
\* second half) or in try block 2.
SearchInvidious ==
    /\ endpoint = "search-multi" /\ rpc \in {"yt-dlp/invidious", "invidious"}
    /\ \E ans \in MirrorSearchAnswers :
         LET stage == IF rpc = "invidious" THEN "invidious" ELSE "yt-dlp"
             r == invidious_search_instance(ans, limit)
         IN  /\ calls' = Append(calls, Call(stage, "invidious",
                                            InvidiousSearchInstances[inst], r))
             /\ IF r.ok
                THEN /\ rpc' = "returned"
                     /\ reply' = Returned(r.result)
                     /\ UNCHANGED <<inst, errors>>
                ELSE IF inst < Len(InvidiousSearchInstances)
                THEN /\ inst' = inst + 1
                     /\ UNCHANGED <<rpc, reply, errors>>
                ELSE /\ errors' = Append(errors, SearchError(stage, InvidiousSearchExhausted))
                     /\ rpc' = IF stage = "yt-dlp" THEN "invidious" ELSE "piped"
                     /\ inst' = 1
                     /\ reply' = reply
    /\ UNCHANGED <<endpoint, limit, entries, answer, thrown, worker_env, cookies, jvars>>

\* One instance of the Piped search loop (try block 3).
SearchPiped ==
    /\ endpoint = "search-multi" /\ rpc = "piped"
    /\ \E ans \in MirrorSearchAnswers :
         LET r == piped_search_instance(ans, limit)
         IN  /\ calls' = Append(calls, Call("piped", "piped", PipedSearchInstances[inst], r))
             /\ IF r.ok
                THEN /\ rpc' = "returned"
                     /\ reply' = Returned(r.result)
                     /\ UNCHANGED <<inst, errors>>
                ELSE IF inst < Len(PipedSearchInstances)
                THEN /\ inst' = inst + 1
                     /\ UNCHANGED <<rpc, reply, errors>>
                ELSE /\ errors' = PipedSearchExhausted(errors)
                     /\ rpc' = "raised"
                     /\ reply' = AllSearchFailed(errors')
                     /\ inst' = 1
    /\ UNCHANGED <<endpoint, limit, entries, answer, thrown, worker_env, cookies, jvars>>

(***************************************************************************)
(* The job tracker and the download workflow.                              *)
(***************************************************************************)
\* The task ids uuid.uuid4() may return; an id is never returned twice.
TaskIds == {"t1", "t2"}

\* At most this many files of one task exist in the download directory at once.
MaxFiles == 2

\* possible_extensions (main.py:148), in probing order.
possible_extensions == <<"m4a", "webm", "opus", "mp3", "ogg">>

\* The extensions the engine is taken to give the files it writes: two of the
\* probed list, and one outside it ('bestaudio/best' can select any container).
EngineExtensions == {"webm", "ogg", "mp4"}

\* What the engine's exception may say.
EngineErrors == {"ERROR: Video unavailable", "ERROR: Sign in to confirm"}

FileNotFoundMessage == "File non trovato con nessuna estensione comune"

\* str(DOWNLOAD_DIR / f"{task_id}.{ext}")
PathOf(t, ext) == <<"downloads", t, ext>>

\* The dict operations on download_status.
Has(d, t) == t \in DOMAIN d
Put(d, t, e) == [x \in (DOMAIN d) \cup {t} |-> IF x = t THEN e ELSE d[x]]
Del(d, t) == [x \in (DOMAIN d) \ {t} |-> d[x]]

\* No handler is between two statements; `raised` is the exception that the
\* handler run last in statement-sized steps has ended with, if any.
NoHandler(raised) ==
    [op |-> "none", task |-> Absent, stage |-> "idle", held |-> <<>>, raised |-> raised]

\* Handler op, called for task id t, has passed its membership test ("found")
\* or has bound `status = download_status[task_id]` as well ("held").
InHandler(op, t, stage, held) ==
    [op |-> op, task |-> t, stage |-> stage, held |-> held, raised |-> Absent]

\* The position of a task's workflow, and the exception in flight if any.
At(pos) == [at |-> pos, exc |-> Absent]

\* The progress events the engine passes to its hooks: d['status'] and the
\* optional '_percent_str', '_speed_str' and '_eta_str'.
HookEvents ==
    { [status |-> st, percent |-> p, speed |-> Absent, eta |-> Absent] :
        st \in {"downloading", "finished", "error"}, p \in {Absent, "50%"} }

\* d.get(key, default)
GetOr(v, default) == IF v = Absent THEN default ELSE v

\* progress_hook dropping the entry on an 'error' event.
progress_hook_PopsOnError(tracker, d, t) ==
    IF d.status = "downloading"
    THEN Put(tracker, t,
             [status |-> "downloading", progress |-> GetOr(d.percent, "0%"),
              speed |-> GetOr(d.speed, "N/A"), eta |-> GetOr(d.eta, "N/A")])
    ELSE IF d.status = "finished"
    THEN Put(tracker, t,
             [status |-> "processing", progress |-> "100%",
              message |-> "Converting audio..."])
    ELSE Del(tracker, t)

\* progress_hook keeping one progress entry for all jobs instead of one per id.
progress_hook_OneEntryForAll(tracker, d, t) ==
    IF d.status = "downloading"
    THEN Put(tracker, "t1",
             [status |-> "downloading", progress |-> GetOr(d.percent, "0%"),
              speed |-> GetOr(d.speed, "N/A"), eta |-> GetOr(d.eta, "N/A")])
    ELSE IF d.status = "finished"
    THEN Put(tracker, "t1",
             [status |-> "processing", progress |-> "100%",
              message |-> "Converting audio..."])
    ELSE tracker

\* progress_hook (main.py:100-114): the tracker after the hook ran for task t; an
\* event that is neither 'downloading' nor 'finished' stores nothing.
progress_hook(tracker, d, t) ==
    IF d.status = "downloading"
    THEN Put(tracker, t,
             [status |-> "downloading", progress |-> GetOr(d.percent, "0%"),
              speed |-> GetOr(d.speed, "N/A"), eta |-> GetOr(d.eta, "N/A")])
    ELSE IF d.status = "finished"
    THEN Put(tracker, t,
             [status |-> "processing", progress |-> "100%",
              message |-> "Converting audio..."])
    ELSE tracker

\* Probe without the exists() test.
Probe_NoExistsTest(exts, existing) == Head(exts)

\* The loop over possible_extensions (main.py:151-155): the first extension whose
\* file exists, or Absent.
RECURSIVE Probe(_, _)
Probe(exts, existing) ==
    IF exts = <<>> THEN Absent
    ELSE IF Head(exts) \in existing THEN Head(exts)
    ELSE Probe(Tail(exts), existing)

\* ExceptClause as `except yt_dlp.utils.DownloadError`: only the engine's errors.
ExceptClause_EngineErrorsOnly(msg) ==
    [caught |-> msg \in EngineErrors, entry |-> [status |-> "error", message |-> msg]]

\* The except clause of download_audio (main.py:167-172): whether the exception
\* is caught, and the entry stored.
ExceptClause(msg) ==
    [caught |-> TRUE, entry |-> [status |-> "error", message |-> msg]]

\* main.py:147-165: the entry stored once the engine has returned, or the
\* exception raised when no file is found.
AfterDownload(t, existing) ==
    LET ext == Probe(possible_extensions, existing)
    IN  IF ext = Absent
        THEN [raises |-> TRUE, exc |-> FileNotFoundMessage]
        ELSE [raises |-> FALSE,
              entry |-> [status |-> "completed", progress |-> "100%",
                         file |-> PathOf(t, ext)]]

\* CleanupOnWorkflow cancelling the task's workflow.
CleanupOnWorkflow_Cancels(w) == IF w.at = "unused" THEN w ELSE At("done")

\* What cleanup_file does to a running workflow (main.py:804-815): nothing.
CleanupOnWorkflow(w) == w

\* start_download (main.py:719-738): a fresh id, download_audio scheduled as a
\* background task, "queued" returned; download_status is not touched.
start_download(t) ==
    /\ wpc[t].at = "unused"
    /\ wpc' = [wpc EXCEPT ![t] = At("queued")]
    /\ response' = [op |-> "start_download", task |-> t, code |-> 200, status |-> "queued"]
    /\ UNCHANGED <<download_status, files, escaped, rvars, worker_env, cookies, hpc>>

\* download_audio up to its await (main.py:117-145): the background task starts,
\* stores 'starting' and hands the engine's download to the executor.
BeginDownload(t) ==
    /\ wpc[t].at = "queued"
    /\ download_status' = Put(download_status, t, [status |-> "starting", progress |-> "0%"])
    /\ wpc' = [wpc EXCEPT ![t] = At("engine")]
    /\ UNCHANGED <<files, escaped, response, rvars, worker_env, cookies, hpc>>

\* The engine, in the worker thread, reports a progress event.  The engine
\* reports the events of every file it downloads, so a 'downloading' event can
\* follow a 'finished' one (a URL that names several entries).
EngineHook(t) ==
    /\ wpc[t].at = "engine"
    /\ \E d \in HookEvents : download_status' = progress_hook(download_status, d, t)
    /\ UNCHANGED <<wpc, files, escaped, response, rvars, worker_env, cookies, hpc>>

\* The engine writes downloads/<task_id>.<ext>.
EngineWrite(t) ==
    /\ wpc[t].at = "engine"
    /\ Cardinality(files[t]) < MaxFiles
    /\ \E ext \in EngineExtensions \ files[t] :
         files' = [files EXCEPT ![t] = @ \cup {ext}]
    /\ UNCHANGED <<download_status, wpc, escaped, response, rvars, worker_env, cookies, hpc>>

\* YoutubeDL.download returns.
EngineReturn(t) ==
    /\ wpc[t].at = "engine"
    /\ wpc' = [wpc EXCEPT ![t] = At("downloaded")]
    /\ UNCHANGED <<download_status, files, escaped, response, rvars, worker_env, cookies, hpc>>

\* YoutubeDL.download raises.
EngineRaise(t) ==
    /\ wpc[t].at = "engine"
    /\ \E msg \in EngineErrors :
         wpc' = [wpc EXCEPT ![t] = [at |-> "failed", exc |-> msg]]
    /\ UNCHANGED <<download_status, files, escaped, response, rvars, worker_env, cookies, hpc>>

\* The exception msg reaches the except clause of download_audio.
Except(t, msg) ==
    LET h == ExceptClause(msg)
    IN  IF h.caught
        THEN /\ download_status' = Put(download_status, t, h.entry)
             /\ escaped' = escaped
        ELSE /\ download_status' = download_status
             /\ escaped' = [escaped EXCEPT ![t] = TRUE]

\* download_audio resumes after the engine returned (main.py:147-172).
DownloadFinished(t) ==
    /\ wpc[t].at = "downloaded"
    /\ LET r == AfterDownload(t, files[t])
       IN  IF r.raises
           THEN Except(t, r.exc)
           ELSE /\ download_status' = Put(download_status, t, r.entry)
                /\ escaped' = escaped
    /\ wpc' = [wpc EXCEPT ![t] = At("done")]
    /\ UNCHANGED <<files, response, rvars, worker_env, cookies, hpc>>

\* download_audio resumes with the engine's exception (main.py:167-172).
DownloadFailed(t) ==
    /\ wpc[t].at = "failed"
    /\ Except(t, wpc[t].exc)
    /\ wpc' = [wpc EXCEPT ![t] = At("done")]
    /\ UNCHANGED <<files, response, rvars, worker_env, cookies, hpc>>

\* Something outside the program removes a file of the download directory.
ExternalDelete(t) ==
    /\ \E ext \in files[t] : files' = [files EXCEPT ![t] = @ \ {ext}]
    /\ UNCHANGED <<download_status, wpc, escaped, response, rvars, worker_env, cookies, hpc>>

\* get_status (main.py:741-747).
get_status(t) ==
    /\ IF ~Has(download_status, t)
       THEN /\ response' = [op |-> "get_status", task |-> t, code |-> 404,
                            status |-> Absent]
       ELSE /\ response' = [op |-> "get_status", task |-> t, code |-> 200,
                            status |-> download_status[t].status]
    /\ UNCHANGED <<download_status, wpc, files, escaped, rvars, worker_env, cookies, hpc>>

\* download_file serving the recorded path without the exists() test.
download_file_NoExistsTest(t) ==
    /\ response' =
         IF ~Has(download_status, t)
         THEN [op |-> "download_file", task |-> t, code |-> 404, status |-> Absent]
         ELSE IF download_status[t].status # "completed"
         THEN [op |-> "download_file", task |-> t, code |-> 400, status |-> Absent]
         ELSE [op |-> "download_file", task |-> t, code |-> 200, status |-> Absent]
    /\ UNCHANGED <<download_status, wpc, files, escaped, rvars, worker_env, cookies, hpc>>

\* download_file (main.py:750-770).
download_file(t) ==
    /\ response' =
         IF ~Has(download_status, t)
         THEN [op |-> "download_file", task |-> t, code |-> 404, status |-> Absent]
         ELSE IF download_status[t].status # "completed"
         THEN [op |-> "download_file", task |-> t, code |-> 400, status |-> Absent]
         ELSE IF ~(\E ext \in files[t] : PathOf(t, ext) = download_status[t].file)
         THEN [op |-> "download_file", task |-> t, code |-> 404, status |-> Absent]
         ELSE [op |-> "download_file", task |-> t, code |-> 200, status |-> Absent]
    /\ UNCHANGED <<download_status, wpc, files, escaped, rvars, worker_env, cookies, hpc>>

\* What file_path.unlink() (main.py:811) does to a file that exists() has just
\* reported (main.py:810): it removes the file, or the file was removed from
\* outside in between and it raises FileNotFoundError.
UnlinkOutcomes == {"removed", "FileNotFoundError"}

\* The body of cleanup_file (main.py:805-815) run on a tracker and a download
\* directory, with unlink() ending as u: the tracker and the directory it leaves
\* and the status code of the answer.  The unlink() call is in no try block:
\* when it raises, `del download_status[task_id]` and the return are not reached
\* and the framework answers 500.
Cleanup(tracker, dir, t, u) ==
    LET known == Has(tracker, t)
        exists == /\ known
                  /\ tracker[t].status = "completed"
                  /\ \E ext \in dir[t] : PathOf(t, ext) = tracker[t].file
        raised == exists /\ u = "FileNotFoundError"
    IN  [tracker |-> IF known /\ ~raised THEN Del(tracker, t) ELSE tracker,
         dir |-> IF exists
                 THEN [dir EXCEPT ![t] = {ext \in @ : PathOf(t, ext) # tracker[t].file}]
                 ELSE dir,
         code |-> IF raised THEN 500 ELSE 200]

\* cleanup_file (main.py:803-815).
cleanup_file(t) ==
    /\ \E u \in UnlinkOutcomes :
         LET r == Cleanup(download_status, files, t, u)
         IN  /\ download_status' = r.tracker
             /\ files' = r.dir
             /\ response' = [op |-> "cleanup_file", task |-> t, code |-> r.code,
                             status |-> Absent]
    /\ wpc' = [wpc EXCEPT ![t] = CleanupOnWorkflow(@)]
    /\ UNCHANGED <<escaped, rvars, worker_env, cookies, hpc>>

\* The handlers statement by statement.  A handler has no await, so no other
\* handler or coroutine runs inside it, but the engine's worker thread does:
\* progress_hook can run between any two statements.
JobHandlers == {"get_status", "download_file", "cleanup_file"}

Answer(op, t, code, status) == [op |-> op, task |-> t, code |-> code, status |-> status]

\* `if task_id not in download_status` / `if task_id in download_status`
\* (main.py:743, 752, 805).
HandlerTest(op, t) ==
    /\ hpc.stage = "idle"
    /\ IF Has(download_status, t)
       THEN /\ hpc' = InHandler(op, t, "found", <<>>)
            /\ response' = response
       ELSE /\ hpc' = NoHandler(Absent)
            /\ response' = Answer(op, t, IF op = "cleanup_file" THEN 200 ELSE 404, Absent)
    /\ UNCHANGED <<download_status, wpc, files, escaped, rvars, worker_env, cookies>>

\* What download_file does with the entry it has bound (main.py:757-770);
\* status['file'] raises KeyError when the entry has no such key.
ServeHeld(t, held) ==
    IF held.status # "completed" THEN [raised |-> Absent, code |-> 400]
    ELSE IF "file" \notin DOMAIN held THEN [raised |-> "KeyError", code |-> 500]
    ELSE IF ~(\E ext \in files[t] : PathOf(t, ext) = held.file)
    THEN [raised |-> Absent, code |-> 404]
    ELSE [raised |-> Absent, code |-> 200]

\* The subscript download_status[task_id] that follows the test (main.py:747,
\* 755, 806); it raises KeyError when the key is gone.
HandlerRead(op, t) ==
    /\ hpc.stage = "found" /\ hpc.op = op /\ hpc.task = t
    /\ IF ~Has(download_status, t)
       THEN /\ hpc' = NoHandler("KeyError")
            /\ response' = Answer(op, t, 500, Absent)
       ELSE LET entry == download_status[t]
            IN  IF op = "get_status"
                THEN /\ hpc' = NoHandler(Absent)
                     /\ response' = Answer(op, t, 200, entry.status)
                ELSE IF op = "download_file"
                THEN LET r == ServeHeld(t, entry)
                     IN  /\ hpc' = NoHandler(r.raised)
                         /\ response' = Answer(op, t, r.code, Absent)
                ELSE /\ hpc' = InHandler(op, t, "held", entry)
                     /\ response' = response
    /\ UNCHANGED <<download_status, wpc, files, escaped, rvars, worker_env, cookies>>

\* The rest of cleanup_file (main.py:807-815) on the entry it has bound: the
\* file of a completed job is unlinked, then `del download_status[task_id]`
\* raises KeyError when the key is gone.
HandlerDelete(t) ==
    /\ hpc.stage = "held" /\ hpc.task = t
    /\ \E u \in UnlinkOutcomes :
         LET held == hpc.held
             completed == held.status = "completed"
             nofile == completed /\ "file" \notin DOMAIN held
             exists == completed /\ ~nofile /\
                       \E ext \in files[t] : PathOf(t, ext) = held.file
             unlinkfails == exists /\ u = "FileNotFoundError"
             keygone == ~nofile /\ ~unlinkfails /\ ~Has(download_status, t)
         IN  /\ files' = IF exists
                         THEN [files EXCEPT ![t] = {ext \in @ : PathOf(t, ext) # held.file}]
                         ELSE files
             /\ download_status' = IF nofile \/ unlinkfails \/ keygone
                                   THEN download_status
                                   ELSE Del(download_status, t)
             /\ hpc' = NoHandler(IF nofile \/ keygone THEN "KeyError"
                                 ELSE IF unlinkfails THEN "FileNotFoundError"
                                 ELSE Absent)
             /\ response' = Answer("cleanup_file", t,
                                   IF nofile \/ unlinkfails \/ keygone THEN 500 ELSE 200,
                                   Absent)
    /\ UNCHANGED <<wpc, escaped, rvars, worker_env, cookies>>

(***************************************************************************)
(* The specifications.                                                     *)
(***************************************************************************)
\* No request in flight, an empty tracker, an empty download directory.
InitState ==
    /\ endpoint = "none"
    /\ rpc = "idle"
    /\ inst = 1
    /\ limit = 0
    /\ errors = <<>>
    /\ calls = <<>>
    /\ reply = NoReply
    /\ entries = <<>>
    /\ answer = NoAnswer
    /\ thrown = NoThrow
    /\ download_status = <<>>
    /\ wpc = [t \in TaskIds |-> At("unused")]
    /\ files = [t \in TaskIds |-> {}]
    /\ escaped = [t \in TaskIds |-> FALSE]
    /\ response = [op |-> "none", task |-> Absent, code |-> 0, status |-> Absent]
    /\ hpc = NoHandler(Absent)

\* The resolvers, with CLOUDFLARE_WORKER_URL set or not and with or without a
\* cookie file.
InitResolve ==
    /\ InitState
    /\ worker_env \in BOOLEAN
    /\ cookies \in {Absent, "jar0"}

NextResolve ==
    \/ StartStreamMulti
    \/ StreamYtdlp
    \/ StreamInvidious
    \/ StreamPiped
    \/ StreamCloudflare
    \/ StreamCloudflareStandalone
    \/ StartSearchMulti
    \/ SearchYtdlp
    \/ SearchInvidious
    \/ SearchPiped

SpecResolve == InitResolve /\ [][NextResolve]_vars

\* The job tracker, which never reads the environment variable, on a deployment
\* without a cookie file.
Init == InitState /\ worker_env = FALSE /\ cookies = Absent

\* One step of the program, of the engine or of the environment, for task id t.
JobStep(t) ==
    \/ start_download(t)
    \/ BeginDownload(t)
    \/ EngineHook(t)
    \/ EngineWrite(t)
    \/ EngineReturn(t)
    \/ EngineRaise(t)
    \/ DownloadFinished(t)
    \/ DownloadFailed(t)
    \/ ExternalDelete(t)
    \/ get_status(t)
    \/ download_file(t)
    \/ cleanup_file(t)

Next == \E t \in TaskIds : JobStep(t)

Spec == Init /\ [][Next]_vars

\* The task ids requests are made for in the liveness check: one job, under
\* every interleaving of the handlers called for its id.
LiveTasks == {"t1"}

LiveNext == \E t \in LiveTasks : JobStep(t)

\* The job tracker under the scheduling the program has: the background task is
\* run once the response is sent, the engine's download call ends (returns or
\* raises), and the event loop resumes the coroutine that awaits it.
LiveSpec ==
    /\ Init
    /\ [][LiveNext]_vars
    /\ \A t \in LiveTasks :
         /\ WF_vars(BeginDownload(t))
         /\ WF_vars(EngineReturn(t) \/ EngineRaise(t))
         /\ WF_vars(DownloadFinished(t))
         /\ WF_vars(DownloadFailed(t))

\* The steps of the event loop for task id t: a handler or a stretch of
\* download_audio runs only when no handler is in progress.
LoopStep(t) ==
    \/ hpc.stage = "idle" /\ start_download(t)
    \/ hpc.stage = "idle" /\ BeginDownload(t)
    \/ hpc.stage = "idle" /\ DownloadFinished(t)
    \/ hpc.stage = "idle" /\ DownloadFailed(t)
    \/ \E op \in JobHandlers : HandlerTest(op, t)
    \/ \E op \in JobHandlers : HandlerRead(op, t)
    \/ HandlerDelete(t)

\* The steps of the engine's worker thread and of the environment, which can
\* fall between any two statements of the event loop's thread.
ThreadStep(t) ==
    \/ EngineHook(t)
    \/ EngineWrite(t)
    \/ EngineReturn(t)
    \/ EngineRaise(t)
    \/ ExternalDelete(t)

RaceNext == \E t \in LiveTasks : LoopStep(t) \/ ThreadStep(t)

\* The job tracker with the handlers taken statement by statement.
SpecRace == Init /\ [][RaceNext]_vars

(***************************************************************************)
(* Properties of the resolvers (checked under SpecResolve).                *)
(***************************************************************************)
\* The documented preference: yt-dlp, Invidious, Piped, Cloudflare.
BackendRank(b) ==
    CASE b = "yt-dlp" -> 1 [] b = "invidious" -> 2 [] b = "piped" -> 3
      [] b = "cloudflare" -> 4

LastCall == calls[Len(calls)]

\* C1: in a call of get_stream_multi_fallback the backends are contacted in the
\* order yt-dlp, Invidious, Piped, Cloudflare: no backend is contacted before
\* every backend preferred to it has been, none after one that is less preferred,
\* and Cloudflare only if the variable is set; nothing is contacted after a
\* contact that succeeded, and the call returns exactly when its last contact
\* succeeded, with the stream URL that contact produced.
C1_PriorityOrder ==
    endpoint = "stream-multi" =>
        /\ \A i, j \in 1..Len(calls) :
             i < j => BackendRank(calls[i].backend) <= BackendRank(calls[j].backend)
        /\ \A i \in 1..Len(calls) :
             \A b \in {"yt-dlp", "invidious", "piped"} :
                BackendRank(b) < BackendRank(calls[i].backend) =>
                    \E j \in 1..(i - 1) : calls[j].backend = b
        /\ \A i \in 1..Len(calls) : calls[i].backend = "cloudflare" => worker_env
        /\ \A i \in 1..(Len(calls) - 1) : ~calls[i].ok
        /\ reply.kind = "ok" <=> (calls # <<>> /\ LastCall.ok)
        /\ reply.kind = "ok" => reply.body.stream_url = LastCall.url

\* C1's case: the call returned Piped's result after yt-dlp and Invidious failed.
C1_Witness ==
    /\ endpoint = "stream-multi"
    /\ reply.kind = "ok"
    /\ LastCall.backend = "piped"
    /\ reply.body.stream_url = "m1"
    /\ \E i \in 1..Len(calls) : calls[i].backend = "invidious" /\ ~calls[i].ok

\* C2: when get_stream_multi_fallback returns, 'method' names the backend that
\* produced the stream URL and 'fallback_used' is false exactly when that backend
\* is yt-dlp.
C2_MethodNamesProducer ==
    (endpoint = "stream-multi" /\ reply.kind = "ok") =>
        /\ reply.body.method = LastCall.backend
        /\ reply.body.fallback_used = (LastCall.backend # "yt-dlp")

\* The try blocks (adapters) a request entered, in order, each once.
RECURSIVE AttemptedStages(_)
AttemptedStages(cs) ==
    IF cs = <<>> THEN <<>>
    ELSE LET before == AttemptedStages(SubSeq(cs, 1, Len(cs) - 1))
             st == cs[Len(cs)].stage
         IN  IF \E i \in 1..Len(before) : before[i] = st THEN before
             ELSE Append(before, st)

\* C3: when a multi-fallback resolver fails, its aggregate error holds exactly one
\* entry per provider attempted, none for a provider not attempted, in the order
\* of the attempts.
C3_OneEntryPerAttempt ==
    (endpoint \in {"stream-multi", "search-multi"} /\ reply.kind = "raise") =>
        [i \in 1..Len(reply.detail.errors) |-> reply.detail.errors[i].method]
            = AttemptedStages(calls)

\* C4: with the proxy endpoint not configured, get_stream_multi_fallback does not
\* contact the proxy, records no error entry for it and does not count it among
\* the tried methods.
C4_UnconfiguredProxySkipped ==
    (endpoint = "stream-multi" /\ ~worker_env) =>
        /\ \A i \in 1..Len(calls) : calls[i].backend # "cloudflare"
        /\ \A i \in 1..Len(errors) : errors[i].method # "cloudflare"
        /\ reply.kind = "raise" =>
             reply.detail.tried_methods = Len(AttemptedStages(calls))

\* C5: within one call of a multi-fallback resolver every adapter, and so every
\* instance pool, runs at most once: no instance is contacted a second time.
C5_EachPoolRunsOnce ==
    \A i, j \in 1..Len(calls) :
        (i < j /\ calls[i].backend = calls[j].backend) =>
            calls[i].instance # calls[j].instance

(***************************************************************************)
(* Properties of the job tracker (checked under Spec and LiveSpec).        *)
(***************************************************************************)
StatusRank(st) ==
    CASE st = "queued" -> 0 [] st = "starting" -> 1 [] st = "downloading" -> 2
      [] st = "processing" -> 3 [] st = "completed" -> 4 [] st = "error" -> 4

\* C6: the statuses that successive get_status calls return for one task id never
\* move backward in queued < starting < downloading < processing <
\* completed|error.
C6_StatusNeverMovesBackward ==
    [][ ( /\ response.op = "get_status" /\ response.code = 200
          /\ response'.op = "get_status" /\ response'.code = 200
          /\ response'.task = response.task )
        => StatusRank(response'.status) >= StatusRank(response.status) ]_vars

\* C7: once start_download has returned a task id, and until the workflow goes
\* further, the tracker holds an entry for that id with status queued or
\* starting, and a get_status call for it answers with that status, not with
\* 'Task not found'.
C7_QueuedJobIsTracked ==
    \A t \in TaskIds :
        wpc[t].at = "queued" =>
            /\ Has(download_status, t)
            /\ download_status[t].status \in {"queued", "starting"}
            /\ (response.op = "get_status" /\ response.task = t) =>
                  (response.code = 200 /\ response.status \in {"queued", "starting"})

\* Whether one of the probed extensions exists among `existing`.
SomeProbedExists(existing) ==
    \E i \in 1..Len(possible_extensions) : possible_extensions[i] \in existing

\* C8: a 'completed' entry always carries a file path; a job becomes 'completed'
\* only when download_audio resumes after the engine returned, the path recorded
\* is then that of the first extension of (m4a, webm, opus, mp3, ogg) whose file
\* exists at that moment, and if none exists the job becomes 'error' instead.
C8_CompletedFileProbed ==
    [][ \A t \in TaskIds :
          LET completes == /\ Has(download_status', t)
                           /\ download_status'[t].status = "completed"
                           /\ ~(Has(download_status, t) /\
                                download_status[t].status = "completed")
              resumes == wpc[t].at = "downloaded" /\ wpc'[t].at = "done"
          IN  /\ (Has(download_status', t) /\ download_status'[t].status = "completed")
                    => "file" \in DOMAIN download_status'[t]
              /\ completes => resumes
              /\ (resumes /\ SomeProbedExists(files[t])) =>
                    \E i \in 1..Len(possible_extensions) :
                       /\ possible_extensions[i] \in files[t]
                       /\ possible_extensions[i] \in files'[t]
                       /\ \A j \in 1..(i - 1) : possible_extensions[j] \notin files[t]
                       /\ Has(download_status', t)
                       /\ download_status'[t].status = "completed"
                       /\ download_status'[t].file = PathOf(t, possible_extensions[i])
              /\ (resumes /\ ~SomeProbedExists(files[t])) =>
                    (Has(download_status', t) /\ download_status'[t].status = "error")
      ]_vars

\* C8's case: a job completed with the .webm file while a .ogg file existed too.
C8_Witness ==
    \E t \in TaskIds :
        /\ wpc[t].at = "done"
        /\ Has(download_status, t)
        /\ download_status[t].status = "completed"
        /\ download_status[t].file = PathOf(t, "webm")
        /\ files[t] = {"webm", "ogg"}

\* C9: a failure of the download workflow (the engine's download raising, or no
\* output file found afterwards) is stored in that job's entry as status 'error'
\* with the failure's message, and no exception leaves download_audio.
C9_FailureRecorded ==
    [][ \A t \in TaskIds :
          /\ (wpc[t].at = "failed" /\ wpc'[t].at = "done") =>
                /\ Has(download_status', t)
                /\ download_status'[t] = [status |-> "error", message |-> wpc[t].exc]
          /\ (wpc[t].at = "downloaded" /\ wpc'[t].at = "done"
                /\ ~SomeProbedExists(files[t])) =>
                /\ Has(download_status', t)
                /\ download_status'[t] =
                      [status |-> "error", message |-> FileNotFoundMessage]
          /\ ~escaped'[t]
      ]_vars

\* C9's case: both kinds of failure were recorded, one per job.
C9_Witness ==
    \E t, u \in TaskIds :
        /\ wpc[t].at = "done" /\ wpc[u].at = "done"
        /\ Has(download_status, t) /\ Has(download_status, u)
        /\ download_status[t] = [status |-> "error", message |-> "ERROR: Video unavailable"]
        /\ download_status[u] = [status |-> "error", message |-> FileNotFoundMessage]

\* C10: every job that start_download scheduled reaches a state in which its
\* tracker entry has status 'completed' or 'error', whatever status, download and
\* cleanup requests arrive meanwhile.
C10_JobEnds ==
    \A t \in LiveTasks :
        (wpc[t].at = "queued") ~>
            (Has(download_status, t) /\
             download_status[t].status \in {"completed", "error"})

\* C10's case: the job of t1 ended 'completed' although cleanup_file was called
\* for it while it ran (the last handler response is that cleanup's, and the
\* entry it removed is back).
C10_Witness ==
    /\ response.op = "cleanup_file" /\ response.task = "t1"
    /\ wpc["t1"].at = "done"
    /\ Has(download_status, "t1")
    /\ download_status["t1"].status = "completed"

\* The recorded file of a completed job t exists in the download directory.
RecordedFileExists(t) ==
    /\ Has(download_status, t)
    /\ download_status[t].status = "completed"
    /\ \E ext \in files[t] : PathOf(t, ext) = download_status[t].file

\* C11: whatever the task id and the state of its job, a cleanup_file call that
\* comes right after a cleanup_file call for the same id changes neither the
\* tracker nor the download directory and answers with success.
C11_SecondCleanupIsNoOp ==
    \A t \in TaskIds : \A u1, u2 \in UnlinkOutcomes :
        LET first == Cleanup(download_status, files, t, u1)
            second == Cleanup(first.tracker, first.dir, t, u2)
        IN  /\ second.tracker = first.tracker
            /\ second.dir = first.dir
            /\ second.code = 200

\* C12: a cleanup_file call for a known task id removes the entry and answers
\* with success, and after it the recorded file of a completed job is gone,
\* whether or not the deletion itself succeeded.
C12_CleanupToleratesUnlinkFailure ==
    \A t \in TaskIds : \A u \in UnlinkOutcomes :
        Has(download_status, t) =>
            LET r == Cleanup(download_status, files, t, u)
            IN  /\ ~Has(r.tracker, t)
                /\ r.code = 200
                /\ download_status[t].status = "completed" =>
                      \A ext \in r.dir[t] : PathOf(t, ext) # download_status[t].file

\* C13: download_file answers 404 for an unknown task id, 400 for a job that is
\* not completed, 404 for a completed job whose recorded file is missing, and
\* serves the file (200) in the remaining case only; it never changes the
\* tracker.
C13_DownloadFileGuards ==
    [][ \A t \in TaskIds :
          download_file(t) =>
            /\ download_status' = download_status
            /\ response'.code =
                 CASE ~Has(download_status, t) -> 404
                   [] Has(download_status, t) /\ download_status[t].status # "completed" -> 400
                   [] OTHER -> IF RecordedFileExists(t) THEN 200 ELSE 404 ]_vars

\* C13's case: download_file answered 404 for a job that is completed and whose
\* recorded file is no longer there, and the entry is still in the tracker.
C13_Witness ==
    \E t \in TaskIds :
        /\ response = [op |-> "download_file", task |-> t, code |-> 404, status |-> Absent]
        /\ Has(download_status, t)
        /\ download_status[t].status = "completed"
        /\ ~RecordedFileExists(t)

(***************************************************************************)
(* Properties of the mirror instance pools (checked under SpecResolve).    *)
(***************************************************************************)
\* The instance list that the pool of `backend` walks in the running request.
PoolInstances(backend) ==
    IF endpoint = "stream-multi"
    THEN (IF backend = "invidious" THEN InvidiousStreamInstances ELSE PipedStreamInstances)
    ELSE (IF backend = "invidious" THEN InvidiousSearchInstances ELSE PipedSearchInstances)

\* The calls of get_stream_via_invidious, get_stream_via_piped and
\* search_via_invidious among the calls of the running request.
PoolCalls ==
    { i \in 1..Len(calls) :
        \/ calls[i].backend = "invidious"
        \/ calls[i].backend = "piped" /\ endpoint = "stream-multi" }

\* The position of call i in its pool run: the number of calls up to i that were
\* made by the same try block to the same backend.
PoolPosition(i) ==
    Cardinality({ j \in 1..i : /\ calls[j].stage = calls[i].stage
                               /\ calls[j].backend = calls[i].backend })

\* C14: a pool contacts its instances in list order, one after the other; after
\* a failing instance that is not the last it goes on with the next one; the
\* first instance that succeeds ends the request with that instance's result,
\* and nothing is contacted after it.
C14_PoolWalksInOrder ==
    \A i \in PoolCalls :
        LET k == PoolPosition(i)
            instances == PoolInstances(calls[i].backend)
        IN  /\ k <= Len(instances)
            /\ calls[i].instance = instances[k]
            /\ \A j \in PoolCalls :
                 (j < i /\ calls[j].stage = calls[i].stage /\ calls[j].backend = calls[i].backend)
                    => ~calls[j].ok
            /\ calls[i].ok =>
                 /\ i = Len(calls)
                 /\ rpc = "returned"
                 /\ reply.kind = "ok"
                 /\ endpoint = "stream-multi" =>
                       /\ reply.body.stream_url = calls[i].url
                       /\ reply.body.instance_used = calls[i].instance
                 /\ endpoint = "search-multi" => reply.body.source = calls[i].backend
            /\ (~calls[i].ok /\ i = Len(calls) /\ k < Len(instances)) =>
                 /\ rpc \in {"yt-dlp/invidious", "invidious", "piped"}
                 /\ inst = k + 1

\* C14's case: the Piped pool met two failing instances and returned the result
\* of its third one.
C14_Witness ==
    /\ endpoint = "stream-multi" /\ rpc = "returned"
    /\ Len(calls) >= 3
    /\ LET n == Len(calls)
       IN  /\ calls[n].backend = "piped" /\ calls[n].ok
           /\ calls[n].instance = PipedStreamInstances[3]
           /\ calls[n - 1].backend = "piped" /\ ~calls[n - 1].ok
           /\ calls[n - 2].backend = "piped" /\ ~calls[n - 2].ok
           /\ reply.body.instance_used = PipedStreamInstances[3]

\* str(n) for the numbers of instances a pool can have tried.
Decimal(n) == <<"0", "1", "2", "3", "4", "5", "6", "7", "8", "9">>[n + 1]

\* C15: the error a try block records when its pool has failed on every instance
\* is the pool's single error and carries the number of instances tried.
C15_ExhaustionCarriesCount ==
    \A i \in DOMAIN errors :
        errors[i].method \in {"yt-dlp", "invidious", "piped"} =>
            LET tried == Cardinality({ j \in PoolCalls : calls[j].stage = errors[i].method })
                detail == errors[i].error[3]
            IN  \E k \in DOMAIN detail : detail[k] = Decimal(tried)

(***************************************************************************)
(* Properties of search (checked under SpecResolve).                       *)
(***************************************************************************)
\* The response in hand was built by the yt-dlp half of search_music.
ServedByYtdlp ==
    /\ endpoint = "search-multi" /\ rpc = "returned"
    /\ reply.body.source = "yt-dlp"

\* The results built from the entries of `raw` that satisfy Keep, in raw's order.
Kept(raw, Keep(_)) ==
    LET kept == SelectSeq(raw, Keep)
    IN  [i \in 1..Len(kept) |-> SearchItem(kept[i])]

\* One keyword denylist, applied to both fields.
KeywordDenylist == TitleDenylist \cup UploaderDenylist

C17_NoDenylistedResult ==
    (endpoint = "search-multi" /\ rpc = "returned") =>
        \A i \in DOMAIN reply.body.results :
            LET item == reply.body.results[i]
            IN  /\ \A x \in TitleDenylist : ~Contains(x, Lower(item.title))
                /\ \A x \in UploaderDenylist : ~Contains(x, Lower(item.uploader))

(***************************************************************************)
(* Properties of the worker proxy called on its own (under SpecResolve).   *)
(***************************************************************************)
\* C18: with CLOUDFLARE_WORKER_URL not set, a direct get_stream_via_cloudflare
\* call raises the 'not configured' error without contacting a worker; and the
\* test of the direct call (main.py:292) says "configured" exactly when the test
\* of get_stream_multi_fallback (main.py:444-445) does.
C18_StandaloneNeedsConfiguration ==
    endpoint = "stream-cloudflare" =>
        /\ ~worker_env =>
              /\ rpc = "raised"
              /\ reply.kind = "raise"
              /\ reply.status_code = 503
              /\ reply.detail = <<"Cloudflare Worker non configurato">>
              /\ calls = <<>>
        /\ (WorkerUrl # "") <=> worker_env

(***************************************************************************)
(* Statelessness of the resolution calls (under SpecResolve).              *)
(***************************************************************************)
\* C19: a step of a resolution call changes nothing that outlives the call:
\* neither the job tracker nor the cookie file; a call begins with empty locals,
\* whatever the calls before it left; and a result is returned only from a
\* contact that the call itself has made.
C19_CallsShareNoState ==
    [][ /\ jvars' = jvars
        /\ cookies' = cookies
        /\ rpc \in {"idle", "returned", "raised"} =>
              /\ errors' = <<>>
              /\ entries' = <<>>
              /\ Len(calls') <= 1
        /\ rpc' = "returned" =>
              /\ calls' # <<>>
              /\ calls'[Len(calls')].ok
      ]_vars

(***************************************************************************)
(* Isolation of the jobs (checked under Spec).                             *)
(***************************************************************************)
\* The tracker holds the same thing for task id u before and after the step.
EntryUntouched(u) ==
    /\ Has(download_status', u) <=> Has(download_status, u)
    /\ Has(download_status, u) => download_status'[u] = download_status[u]

\* C20: a step of the workflow or of the progress hook of task id t leaves the
\* entry of every other task id as it was; get_status and download_file leave
\* the whole tracker as it was; and start_download hands out a task id that no
\* earlier call has handed out and that has no entry yet.
C20_JobsAreIsolated ==
    [][ \A t \in TaskIds :
          /\ ( BeginDownload(t) \/ EngineHook(t) \/ DownloadFinished(t) \/ DownloadFailed(t) )
                => \A u \in TaskIds \ {t} : EntryUntouched(u)
          /\ ( get_status(t) \/ download_file(t) ) => download_status' = download_status
          /\ start_download(t) =>
                /\ wpc[t].at = "unused"
                /\ ~Has(download_status, t)
                /\ response'.task = t
      ]_vars

\* C20's case: two jobs are in the tracker at once, in different states, each
\* under its own id.
C20_Witness ==
    /\ Has(download_status, "t1") /\ Has(download_status, "t2")
    /\ download_status["t1"].status = "completed"
    /\ download_status["t1"].file = PathOf("t1", "webm")
    /\ download_status["t2"].status = "downloading"
    /\ wpc["t2"].at = "engine"

(***************************************************************************)
(* Cleanup against a finished or running workflow (checked under Spec).    *)
(***************************************************************************)
\* C21: while the last handler response is the success of a cleanup_file call
\* for task id t, that is at every moment after that call returned, the tracker
\* holds no entry for t, whatever the workflow and the progress hook of t do.
C21_CleanedJobStaysOut ==
    \A t \in TaskIds :
        (response.op = "cleanup_file" /\ response.task = t /\ response.code = 200)
            => ~Has(download_status, t)

\* C22: when the workflow of task id t has ended and its entry is gone, which
\* only a cleanup_file call made after the end brings about (the workflow's last
\* step always stores an entry), no file of t is left in the download directory.
C22_CleanupLeavesNoFile ==
    \A t \in TaskIds :
        (wpc[t].at = "done" /\ ~Has(download_status, t)) => files[t] = {}

(***************************************************************************)
(* The handlers against the worker thread (checked under SpecRace).        *)
(***************************************************************************)
\* C23: no job handler ends with a KeyError: an entry that a handler's
\* membership test found is still in the tracker when the handler reads or
\* deletes it, whatever the progress hook does in between, and every entry with
\* status 'completed' has the 'file' key.
C23_NoMissingKey ==
    /\ hpc.raised # "KeyError"
    /\ hpc.stage \in {"found", "held"} => Has(download_status, hpc.task)
    /\ \A t \in TaskIds :
         (Has(download_status, t) /\ download_status[t].status = "completed")
            => "file" \in DOMAIN download_status[t]
    /\ (hpc.stage = "held" /\ hpc.held.status = "completed") => "file" \in DOMAIN hpc.held

\* C23's case: cleanup_file bound the 'downloading' entry of t1 and, before its
\* `del`, the progress hook replaced that entry with the 'processing' one.
C23_Witness ==
    /\ hpc.stage = "held" /\ hpc.op = "cleanup_file" /\ hpc.task = "t1"
    /\ hpc.held.status = "downloading"
    /\ Has(download_status, "t1")
    /\ download_status["t1"].status = "processing"

(***************************************************************************)
(* The order of the search backends (checked under SpecResolve).           *)
(***************************************************************************)
\* Entry e of yt-dlp's answer passes the filter of search_music.
Survives(e) ==
    /\ ~e.null
    /\ \A x \in TitleDenylist : ~Contains(x, Lower(e.title))
    /\ \A x \in UploaderDenylist : ~Contains(x, Lower(e.uploader))

\* C24: a search asks yt-dlp first; when yt-dlp's answer holds an entry that
\* passes the filter, the search returns with source 'yt-dlp' and contacts
\* nothing else; Invidious is contacted only after yt-dlp raised or kept no
\* entry, and Piped only after every Invidious instance has failed as well.
C24_SearchOrder ==
    (endpoint = "search-multi" /\ calls # <<>>) =>
        /\ calls[1].backend = "yt-dlp"
        /\ (\E i \in 1..Len(entries) : Survives(entries[i])) =>
              /\ rpc = "returned"
              /\ reply.body.source = "yt-dlp"
              /\ Len(calls) = 1
        /\ Len(calls) > 1 =>
              /\ ~calls[1].ok
              /\ \A i \in 1..Len(entries) : ~Survives(entries[i])
        /\ \A j \in 1..Len(calls) :
              calls[j].backend = "piped" =>
                 \A k \in 1..Len(InvidiousSearchInstances) :
                    \E i \in 1..(j - 1) :
                       /\ calls[i].backend = "invidious"
                       /\ calls[i].instance = InvidiousSearchInstances[k]
                       /\ ~calls[i].ok

(***************************************************************************)
(* Format selection (checked under SpecResolve).                           *)
(***************************************************************************)
\* Format f of an answer of `backend` is a candidate: for yt-dlp an audio codec
\* other than 'none' and a URL, for Invidious a type that starts with 'audio',
\* for Piped every audio stream.
Candidate(backend, f) ==
    IF backend = "yt-dlp" THEN f.acodec # "none" /\ f.url # Absent
    ELSE IF backend = "invidious" THEN StartsWith(AudioPrefix, f.type)
    ELSE TRUE

\* The bitrate a format is ranked by; a missing one counts as zero.
Rate(backend, f) ==
    LET b == IF backend = "yt-dlp" THEN f.abr ELSE f.bitrate
    IN  IF b = <<>> THEN 0 ELSE b[1]

\* C25: the stream URL returned is that of a candidate of the answer that no
\* other candidate beats: none has a higher bitrate, and none of equal bitrate
\* comes earlier in the answer's list.
C25_BestFormatSelected ==
    ( /\ endpoint = "stream-multi" /\ rpc = "returned"
      /\ LastCall.backend \in {"yt-dlp", "invidious", "piped"} ) =>
        LET b == LastCall.backend
            fs == answer.formats
        IN  \E i \in 1..Len(fs) :
               /\ Candidate(b, fs[i])
               /\ reply.body.stream_url = fs[i].url
               /\ \A j \in 1..Len(fs) :
                    Candidate(b, fs[j]) =>
                       \/ Rate(b, fs[j]) < Rate(b, fs[i])
                       \/ Rate(b, fs[j]) = Rate(b, fs[i]) /\ i <= j

\* C25's case: yt-dlp answered four formats, one without bitrate, one video
\* only, one of 160 and one of 320 without URL; the one of 160 was returned.
C25_Witness ==
    /\ endpoint = "stream-multi" /\ rpc = "returned"
    /\ LastCall.backend = "yt-dlp"
    /\ Len(answer.formats) = 4
    /\ reply.body.stream_url = "u2"

(***************************************************************************)
(* Failures inside the adapters (checked under SpecResolve).               *)
(***************************************************************************)
\* The try blocks of get_stream_multi_fallback a request that ran out of
\* providers has been through.
StagesTried ==
    {"yt-dlp", "invidious", "piped"} \cup (IF worker_env THEN {"cloudflare"} ELSE {})

\* C26: whatever a backend answered, no exception other than an HTTPException
\* left the adapter; in get_stream_multi_fallback every contact but the last
\* failed and was followed by another one, and the request ends with an error
\* only after every provider available was contacted.
C26_FailuresStayInAdapter ==
    /\ thrown.escaped = Absent
    /\ endpoint = "stream-multi" =>
          /\ \A i \in 1..Len(calls) : i < Len(calls) => ~calls[i].ok
          /\ rpc = "raised" =>
                \A stage \in StagesTried : \E i \in 1..Len(calls) : calls[i].stage = stage

\* C26's case: the last Invidious instance answered an audio format without
\* URL, the KeyError stayed in the adapter, and the resolver is about to ask
\* the first Piped instance.
C26_Witness ==
    /\ endpoint = "stream-multi" /\ rpc = "piped" /\ inst = 1
    /\ LastCall.stage = "invidious"
    /\ thrown.raised = "KeyError"

\* C27: a failed standalone call of get_stream_via_cloudflare carries the
\* worker's own status code and text when the worker answered a status other
\* than 200, 504 when the request timed out, and 503 for any other failure.
C27_WorkerStatusPassedOn ==
    (endpoint = "stream-cloudflare" /\ rpc = "raised") =>
        IF answer.kind = "timeout" THEN reply.status_code = 504
        ELSE IF answer.kind = "http" /\ answer.status_code # 200
        THEN /\ reply.status_code = answer.status_code
             /\ reply.detail = <<"Worker failed: ", answer.text>>
        ELSE reply.status_code = 503

====
